---- MODULE Spec2Model ----
(***************************************************************************)
(* Model of examples/messenger.js: the Messenger webhook, the in-memory    *)
(* session map, the bot actions and the Send-API gateway, together with    *)
(* the dispatch loop of wit.runActions that drives the actions.            *)
(*                                                                         *)
(* JavaScript runs every callback to completion, so each action below is   *)
(* one callback: the POST handler, the arrival of one NLU decision (with   *)
(* the handler and, on stop or error, the completion callback it runs),    *)
(* and the arrival of one transport answer.                                *)
(***************************************************************************)
EXTENDS Integers, Sequences, FiniteSets, TLC

VARIABLES
    sessions,   \* the sessions object: records [k, fbid, context] in key insertion order
    clock,      \* the wall clock read by new Date(), in milliseconds
    loops,      \* the dispatch loops started by wit.runActions, in start order
    pending,    \* Send-API requests in flight whose answer a callback waits for
    reqs,       \* POST /fb: the response to the last one
    outbox      \* the requests handed to fbReq by the callback that ran last

vars == <<sessions, clock, loops, pending, reqs, outbox>>

\* ---------------------------------------------------------------- bounds
MaxClock == 1
MaxLoops == 2
MaxTurns == 2

\* ------------------------------------------------------------ JS values
Undefined == "undefined"
Null == "null"
\* The page id as the Number FB_PAGE_ID holds, the same id as a JSON string,
\* and the id of some other page.
PageNum == "n:1"
PageStr == "s:1"
OtherId == "n:2"
FB_PAGE_ID == PageNum

\* ToNumber, as == applies it when a string meets a number.
ToNumber(x) == IF x \in {PageNum, PageStr} THEN 1 ELSE IF x = OtherId THEN 2 ELSE -1

LooseEq(a, b) == IF a = Undefined \/ b = Undefined THEN a = b ELSE ToNumber(a) = ToNumber(b)

StrictEq(a, b) == a = b

Truthy(x) == x \notin {Undefined, Null}

\* A context is an object reference: 0 is undefined, n > 0 is an object {}.
UndefinedCtx == 0

\* The falsy value of "let sessionId;" before a key is assigned to it.
NoSessionId == <<>>

\* new Date().toISOString(): seconds and milliseconds of the clock reading.
toISOString(t) == <<t \div 1000, t % 1000>>

\* ------------------------------------------------------- inbound payloads
\* req.body, by the fields the handler reads. entry and messaging are the
\* shape of body.entry and body.entry[0].messaging; message, postback,
\* recipient and sender describe messaging[0].
EntryShapes == {"missing", "notArray", "empty", "nullFirst", "ok"}

\* The first messaging entry: message is absent, {}, {text}, {attachments} or
\* {text, attachments}; postback is absent, {payload} or {}; recipient and
\* sender are absent, an object without id (Undefined), or an object with
\* the id given. The well-formed one is a text message to the page from u1.
WellFormedInner ==
    [message |-> "text", postback |-> "absent", recipient |-> PageNum, sender |-> "u1"]

Body(o, e, id, m, in) ==
    [object |-> o, entry |-> e, entryId |-> id, messaging |-> m,
     message |-> in.message, postback |-> in.postback,
     recipient |-> in.recipient, sender |-> in.sender]

\* The shapes of message and postback that make an event: text, attachments,
\* both, an empty message, a postback with and without payload, and a
\* postback next to a message.
EventShapes ==
    {<<"text", "absent">>, <<"atts", "absent">>, <<"textAtts", "absent">>,
     <<"empty", "absent">>, <<"absent", "payload">>, <<"absent", "noPayload">>,
     <<"atts", "payload">>, <<"text", "noPayload">>}

InnerOf(shape, recipient, sender) ==
    [message |-> shape[1], postback |-> shape[2], recipient |-> recipient, sender |-> sender]

\* The inbound bodies: every event shape from each user, every recipient and
\* sender defect on a text and on a postback event, an entry with neither
\* message nor postback, and every envelope around a well-formed first
\* messaging entry.
Payloads ==
    {Body("page", "ok", PageNum, "ok", InnerOf(sh, PageNum, u)) :
        sh \in EventShapes, u \in {"u1", "u2"}}
    \cup {Body("page", "ok", PageNum, "ok", InnerOf(sh, rc, "u1")) :
        sh \in {<<"text", "absent">>, <<"absent", "payload">>},
        rc \in {"absent", Undefined, PageStr, OtherId}}
    \cup {Body("page", "ok", PageNum, "ok", InnerOf(sh, PageNum, "absent")) :
        sh \in {<<"text", "absent">>, <<"absent", "payload">>}}
    \cup {Body("page", "ok", PageNum, "ok", InnerOf(<<"absent", "absent">>, rc, "u1")) :
        rc \in {"absent", PageNum}}
    \cup {Body(o, "ok", PageNum, "ok", WellFormedInner) : o \in {"other", "missing"}}
    \cup {Body("page", e, PageNum, "ok", WellFormedInner) : e \in EntryShapes}
    \cup {Body("page", "ok", id, "ok", WellFormedInner) : id \in {PageStr, OtherId, Undefined}}
    \cup {Body("page", "ok", PageNum, m, WellFormedInner) : m \in EntryShapes}

\* The events of a sender object that has no id, next to those of one user:
\* every event shape from each.
IdlessPayloads ==
    {Body("page", "ok", PageNum, "ok", InnerOf(sh, PageNum, u)) :
        sh \in EventShapes, u \in {"u1", Undefined}}

\* Array.isArray(x) && x.length > 0 && x[0], on a shape.
IsArray(shape) == shape \in {"empty", "nullFirst", "ok"}

NonEmpty(shape) == shape \in {"nullFirst", "ok"}

FirstTruthy(shape) == shape = "ok"

\* "val || null" when val is falsy: a value the handler's "messaging &&" rejects.
NullEntry ==
    [truthy |-> FALSE, message |-> "absent", postback |-> "absent",
     recipient |-> "absent", sender |-> "absent"]

getFirstMessagingEntry(body) ==
    IF /\ body.object = "page"
       /\ body.entry # "missing"
       /\ IsArray(body.entry)
       /\ NonEmpty(body.entry)
       /\ FirstTruthy(body.entry)
       /\ LooseEq(body.entryId, FB_PAGE_ID)
       /\ body.messaging # "missing"
       /\ IsArray(body.messaging)
       /\ NonEmpty(body.messaging)
       /\ FirstTruthy(body.messaging)
    THEN [truthy |-> TRUE, message |-> body.message, postback |-> body.postback,
          recipient |-> body.recipient, sender |-> body.sender]
    ELSE NullEntry

\* ------------------------------------------------------------ session map
Keys(sess) == {sess[i].k : i \in 1..Len(sess)}

Has(sess, k) == k \in Keys(sess)

IndexOf(sess, k) == CHOOSE i \in 1..Len(sess) : sess[i].k = k

Get(sess, k) == sess[IndexOf(sess, k)]

\* sessions[k] = rec: an existing key keeps its place and gets the new value.
Put(sess, k, rec) ==
    IF Has(sess, k)
    THEN [sess EXCEPT ![IndexOf(sess, k)] = [k |-> k, fbid |-> rec.fbid, context |-> rec.context]]
    ELSE Append(sess, [k |-> k, fbid |-> rec.fbid, context |-> rec.context])

SetContext(sess, k, ctx) == [sess EXCEPT ![IndexOf(sess, k)].context = ctx]

MaxOf(S) == CHOOSE x \in S : \A y \in S : y <= x

\* A lookup whose comparison never succeeds, as when the record itself and
\* not its fbid is compared with the user id.
FindSessionNoMatch(sess, fbid) == NoSessionId

\* The forEach of findOrCreateSession: the last key whose fbid is strictly
\* equal to the one looked for, if any.
FindSession(sess, fbid) ==
    LET hits == {i \in 1..Len(sess) : StrictEq(sess[i].fbid, fbid)}
    IN  IF hits = {} THEN NoSessionId ELSE sess[MaxOf(hits)].k

\* findOrCreateSession(fbid) at clock reading now; fresh is the new {}.
\* Gives the sessionId returned, the map afterwards and whether it created.
findOrCreateSession(sess, fbid, now, fresh) ==
    LET found == FindSession(sess, fbid)
    IN  IF found = NoSessionId
        THEN [sessionId |-> toISOString(now),
              sessions |-> Put(sess, toISOString(now), [fbid |-> fbid, context |-> fresh]),
              created |-> TRUE]
        ELSE [sessionId |-> found, sessions |-> sess, created |-> FALSE]

\* ------------------------------------------------------ outbound gateway
\* What the transport can answer: a 200 without an error field, a failed
\* call, a 200 whose body has error.message, a 200 whose error has no message.
Outcomes == {"ok", "transportErr", "bodyErr", "bodyErrNoMessage"}

\* err || data.error && data.error.message, the first argument given to cb.
GatewayError(outcome) ==
    CASE outcome = "transportErr" -> "err"
      [] outcome = "ok" -> Undefined
      [] outcome = "bodyErr" -> "message"
      [] outcome = "bodyErrNoMessage" -> Undefined

\* One request handed to fbReq: the recipient, what is sent and whether the
\* caller passed a callback.
fbMessage(recipientId, msg, cb) == [to |-> recipientId, payload |-> msg, cb |-> cb]

fbCarousel(recipientId, cb) == [to |-> recipientId, payload |-> "carousel", cb |-> cb]

\* ----------------------------------------------------------- bot actions
\* What one handler call does before it returns: the requests it issues,
\* whether it called cb before returning, and the argument it gave cb.
say(sess, sessionId, context) ==
    LET recipientId == Get(sess, sessionId).fbid
    IN  IF Truthy(recipientId)
        THEN [sends |-> <<fbMessage(recipientId, "say", TRUE)>>, cbNow |-> FALSE, arg |-> UndefinedCtx]
        ELSE [sends |-> <<>>, cbNow |-> TRUE, arg |-> UndefinedCtx]

\* A callback that gives the wheel back in the error branch and again after it.
SayCallbackTwiceOnError(err) == IF Truthy(err) THEN 2 ELSE 1

\* A callback that gives the wheel back only when the send went through.
SayCallbackSkipsOnError(err) == IF Truthy(err) THEN 0 ELSE 1

\* The callback say hands to fbMessage: how many times it calls cb().
SayCallback(err) == 1

merge(sess, sessionId, context) ==
    [sends |-> <<>>, cbNow |-> TRUE, arg |-> context]

lookup_tonights_schedule(sess, sessionId, context) ==
    [sends |-> <<>>, cbNow |-> TRUE, arg |-> context]

list_schedule(sess, sessionId, context) ==
    LET recipientId == Get(sess, sessionId).fbid
    IN  [sends |-> <<fbCarousel(recipientId, FALSE)>>, cbNow |-> TRUE, arg |-> context]

set_reminder(sess, sessionId, context) ==
    [sends |-> <<>>, cbNow |-> TRUE, arg |-> context]

\* The names the NLU engine can ask for by name, and one it cannot.
Registered == {"lookup_tonights_schedule", "list_schedule", "set_reminder"}

ActionNames == Registered \cup {"nonexistent_action"}

\* The decisions of the engine: a message to say, a merge, a named action,
\* stop, or an error.
Decisions == {"msg", "merge", "stop", "error"} \cup ActionNames

Invoke(d, sess, sessionId, context) ==
    CASE d = "msg" -> say(sess, sessionId, context)
      [] d = "merge" -> merge(sess, sessionId, context)
      [] d = "lookup_tonights_schedule" -> lookup_tonights_schedule(sess, sessionId, context)
      [] d = "list_schedule" -> list_schedule(sess, sessionId, context)
      [] d = "set_reminder" -> set_reminder(sess, sessionId, context)

\* A completion callback that only logs the error and tells the user nothing.
CallbackSilentOnError(sess, sessionId, sender, error, context) ==
    IF Truthy(error)
    THEN [sessions |-> sess, sends |-> <<>>]
    ELSE [sessions |-> SetContext(sess, sessionId, context), sends |-> <<>>]

\* A completion callback that addresses the notice to the user of the
\* session record instead of the sender it closed over.
CallbackNotifiesSessionUser(sess, sessionId, sender, error, context) ==
    IF Truthy(error)
    THEN [sessions |-> sess,
          sends |-> <<fbMessage(Get(sess, sessionId).fbid, "failureNotice", FALSE)>>]
    ELSE [sessions |-> SetContext(sess, sessionId, context), sends |-> <<>>]

\* A completion callback that stores its context argument on failure too.
CallbackAlwaysSaves(sess, sessionId, sender, error, context) ==
    [sessions |-> SetContext(sess, sessionId, context),
     sends |-> IF Truthy(error) THEN <<fbMessage(sender, "failureNotice", FALSE)>> ELSE <<>>]

\* The callback the POST handler gives runActions: (error, context).
Callback(sess, sessionId, sender, error, context) ==
    IF Truthy(error)
    THEN [sessions |-> sess, sends |-> <<fbMessage(sender, "failureNotice", FALSE)>>]
    ELSE [sessions |-> SetContext(sess, sessionId, context), sends |-> <<>>]

\* ---------------------------------------------------------- dispatch loop
\* wit.runActions(sessionId, msg, context, cb): the loop starts in
\* AWAITING_NLU_DECISION with one decide call submitted. sender is the
\* variable the completion callback closes over; rivals is the set of loops
\* for the same sender that were in flight together with this one. Of its
\* turns the
\* loop keeps their number, the handler that is executing (none while a
\* decision is awaited), the context it was given, how often the
\* continuation of the last turn was invoked and the context it produced.
runActions(sessionId, sender, context, rivals) ==
    [sessionId |-> sessionId, sender |-> sender, ctx |-> context,
     status |-> "running", kind |-> "none", nlu |-> 1,
     turn |-> 0, action |-> "none", given |-> UndefinedCtx, conts |-> 0,
     result |-> context, rivals |-> rivals]

\* The context after a continuation called with arg: done() keeps the
\* current context, done(c) replaces it.
NextContext(current, arg) == IF arg = UndefinedCtx THEN current ELSE arg

\* Turn t's continuation is invoked with arg: the loop takes the context and
\* submits the next decide call.
Continue(L, t, arg) ==
    [L EXCEPT !.conts = IF t = L.turn THEN @ + 1 ELSE @,
              !.action = IF t = L.turn THEN "none" ELSE @,
              !.result = NextContext(L.ctx, arg),
              !.ctx = NextContext(L.ctx, arg),
              !.nlu = @ + 1]

ContinueTimes(L, t, arg, times) ==
    CASE times = 0 -> L
      [] times = 1 -> Continue(L, t, arg)
      [] OTHER -> Continue(Continue(L, t, arg), t, arg)

\* The loop enters EXECUTING_ACTION for decision d: the handler is called
\* with the loop's current context; eff is what the call did.
Execute(L, d, eff) ==
    LET started == [L EXCEPT !.nlu = @ - 1,
                             !.turn = @ + 1,
                             !.action = d,
                             !.given = L.ctx,
                             !.conts = 0]
    IN  IF eff.cbNow THEN Continue(started, started.turn, eff.arg) ELSE started

\* The loop ends: DONE on stop, FAILED with the kind of the error. Nothing
\* refers to its closures any more; what stays is the session it ran for
\* and how it ended.
Finish(L, status, kind) ==
    [L EXCEPT !.nlu = @ - 1, !.status = status, !.kind = kind,
              !.turn = 0, !.action = "none", !.given = UndefinedCtx, !.conts = 0,
              !.ctx = UndefinedCtx, !.result = UndefinedCtx,
              !.sender = Null, !.rivals = {}]

\* The requests among sends that carry a callback, with the loop and turn
\* the callback resumes. The answer to a request without callback is dropped
\* by "if (cb)", so nothing waits for it.
InFlight(sends, loop, turn) ==
    {[to |-> sends[j].to, payload |-> sends[j].payload, cb |-> sends[j].cb,
      loop |-> loop, turn |-> turn] : j \in {x \in 1..Len(sends) : sends[x].cb}}

RECURSIVE Turns(_)
\* The handler calls made so far, over all loops.
Turns(ls) == IF ls = <<>> THEN 0 ELSE ls[Len(ls)].turn + Turns(SubSeq(ls, 1, Len(ls) - 1))

\* The loops in flight that were started for sender.
Rivals(ls, sender) ==
    {j \in 1..Len(ls) : ls[j].status = "running" /\ ls[j].sender = sender}

\* A new loop joins ls: the loops in flight for its sender get it as rival.
Start(ls, L) ==
    Append([j \in 1..Len(ls) |->
               IF j \in L.rivals THEN [ls[j] EXCEPT !.rivals = @ \cup {Len(ls) + 1}]
               ELSE ls[j]],
           L)

\* ------------------------------------------------------------ POST /fb
Reply(status, kind, sess, sends, start, sessionId, sender, created) ==
    [status |-> status, kind |-> kind, sessions |-> sess, sends |-> sends,
     start |-> start, sessionId |-> sessionId, sender |-> sender, created |-> created]

\* A handler that tests msg before atts: a message with text and
\* attachments is forwarded to the engine.
PostFbTextFirst(body, sess, now, n) ==
    LET messaging == getFirstMessagingEntry(body)
        ignored == Reply("200", "ignored", sess, <<>>, FALSE, NoSessionId, Null, FALSE)
        threw == Reply("TypeError", "threw", sess, <<>>, FALSE, NoSessionId, Null, FALSE)
    IN  IF ~messaging.truthy THEN ignored
        ELSE IF messaging.message = "absent" /\ messaging.postback = "absent" THEN ignored
        ELSE IF messaging.recipient = "absent" THEN threw
        ELSE IF ~StrictEq(messaging.recipient, FB_PAGE_ID) THEN ignored
        ELSE IF messaging.sender = "absent" THEN threw
        ELSE
          LET sender == messaging.sender
              r == findOrCreateSession(sess, sender, now, n)
              msg == IF messaging.postback # "absent"
                     THEN (IF messaging.postback = "payload" THEN "payload" ELSE Undefined)
                     ELSE (IF messaging.message \in {"text", "textAtts"} THEN "text" ELSE Undefined)
              atts == IF messaging.message # "absent"
                      THEN (IF messaging.message \in {"atts", "textAtts"} THEN "attachments" ELSE Undefined)
                      ELSE Null
          IN  IF Truthy(msg)
              THEN Reply("200", "dispatch", r.sessions, <<>>, TRUE, r.sessionId, sender, r.created)
              ELSE IF Truthy(atts)
              THEN Reply("200", "attachment", r.sessions,
                         <<fbMessage(sender, "attachmentNotice", FALSE)>>,
                         FALSE, r.sessionId, sender, r.created)
              ELSE Reply("200", "nothing", r.sessions, <<>>, FALSE, r.sessionId, sender, r.created)

\* The handler of app.post('/fb') on body, at clock reading now, with n the
\* reference a new {} gets: the response, the session map afterwards, the
\* requests issued and whether runActions is called. Reading .id of a
\* missing recipient or sender throws a TypeError, and res.sendStatus(200)
\* is not reached.
PostFb(body, sess, now, n) ==
    LET messaging == getFirstMessagingEntry(body)
        ignored == Reply("200", "ignored", sess, <<>>, FALSE, NoSessionId, Null, FALSE)
        threw == Reply("TypeError", "threw", sess, <<>>, FALSE, NoSessionId, Null, FALSE)
    IN  IF ~messaging.truthy THEN ignored
        ELSE IF messaging.message = "absent" /\ messaging.postback = "absent" THEN ignored
        ELSE IF messaging.recipient = "absent" THEN threw
        ELSE IF ~StrictEq(messaging.recipient, FB_PAGE_ID) THEN ignored
        ELSE IF messaging.sender = "absent" THEN threw
        ELSE
          LET sender == messaging.sender
              r == findOrCreateSession(sess, sender, now, n)
              msg == IF messaging.postback # "absent"
                     THEN (IF messaging.postback = "payload" THEN "payload" ELSE Undefined)
                     ELSE (IF messaging.message \in {"text", "textAtts"} THEN "text" ELSE Undefined)
              atts == IF messaging.message # "absent"
                      THEN (IF messaging.message \in {"atts", "textAtts"} THEN "attachments" ELSE Undefined)
                      ELSE Null
          IN  IF Truthy(atts)
              THEN Reply("200", "attachment", r.sessions,
                         <<fbMessage(sender, "attachmentNotice", FALSE)>>,
                         FALSE, r.sessionId, sender, r.created)
              ELSE IF Truthy(msg)
              THEN Reply("200", "dispatch", r.sessions, <<>>, TRUE, r.sessionId, sender, r.created)
              ELSE Reply("200", "nothing", r.sessions, <<>>, FALSE, r.sessionId, sender, r.created)

\* ---------------------------------------------------------------- actions
Init ==
    /\ sessions = <<>>
    /\ clock = 0
    /\ loops = <<>>
    /\ pending = {}
    /\ reqs = [status |-> "none"]
    /\ outbox = <<>>

\* The references held by the session map and by the loops.
Refs(sess, ls) ==
    {sess[j].context : j \in 1..Len(sess)}
    \cup {UndefinedCtx}
    \cup {ls[j].ctx : j \in 1..Len(ls)}
    \cup {ls[j].given : j \in 1..Len(ls)}
    \cup {ls[j].result : j \in 1..Len(ls)}

\* The reference of a newly allocated object: one that nothing holds.
Fresh(sess, ls) == CHOOSE n \in 1..Cardinality(Refs(sess, ls)) : n \notin Refs(sess, ls)

\* One POST /fb is handled.
Webhook(body) ==
    /\ LET r == PostFb(body, sessions, clock, Fresh(sessions, loops))
       IN  /\ r.start => Len(loops) < MaxLoops
           /\ sessions' = r.sessions
           /\ loops' = IF r.start
                       THEN Start(loops, runActions(r.sessionId, r.sender,
                                                    Get(r.sessions, r.sessionId).context,
                                                    Rivals(loops, r.sender)))
                       ELSE loops
           /\ pending' = pending \cup InFlight(r.sends, 0, 0)
           /\ reqs' = [status |-> r.status]
           /\ outbox' = r.sends
    /\ UNCHANGED clock

\* The NLU engine answers one outstanding decide call of loop i with d.
NluDecide(i, d) ==
    LET L == loops[i]
    IN  /\ L.status = "running"
        /\ L.nlu > 0
        /\ IF d = "stop"
           THEN LET c == Callback(sessions, L.sessionId, L.sender, Null, L.ctx)
                IN  /\ loops' = [loops EXCEPT ![i] = Finish(L, "done", "none")]
                    /\ sessions' = c.sessions
                    /\ pending' = pending \cup InFlight(c.sends, i, 0)
                    /\ outbox' = c.sends
           ELSE IF d = "error" \/ d \notin Registered \cup {"msg", "merge"}
           THEN LET kind == IF d = "error" THEN "NluEngineError" ELSE "UnknownAction"
                    c == Callback(sessions, L.sessionId, L.sender, kind, UndefinedCtx)
                IN  /\ loops' = [loops EXCEPT ![i] = Finish(L, "failed", kind)]
                    /\ sessions' = c.sessions
                    /\ pending' = pending \cup InFlight(c.sends, i, 0)
                    /\ outbox' = c.sends
           ELSE LET eff == Invoke(d, sessions, L.sessionId, L.ctx)
                IN  /\ Turns(loops) < MaxTurns
                    /\ loops' = [loops EXCEPT ![i] = Execute(L, d, eff)]
                    /\ pending' = pending \cup InFlight(eff.sends, i, L.turn + 1)
                    /\ outbox' = eff.sends
                    /\ UNCHANGED sessions
        /\ UNCHANGED <<clock, reqs>>

\* The transport answers one request in flight and the gateway calls the
\* callback it was given. Only say gives one.
TransportAnswer(s, outcome) ==
    /\ s \in pending
    /\ pending' = pending \ {s}
    /\ loops' = IF s.cb
                THEN [loops EXCEPT ![s.loop] =
                        ContinueTimes(@, s.turn, UndefinedCtx, SayCallback(GatewayError(outcome)))]
                ELSE loops
    /\ outbox' = <<>>
    /\ UNCHANGED <<sessions, clock, reqs>>

\* A millisecond passes.
Tick ==
    /\ clock < MaxClock
    /\ clock' = clock + 1
    /\ outbox' = <<>>
    /\ UNCHANGED <<sessions, loops, pending, reqs>>

Next ==
    \/ \E body \in Payloads : Webhook(body)
    \/ \E i \in 1..Len(loops), d \in Decisions : NluDecide(i, d)
    \/ \E s \in pending, outcome \in Outcomes : TransportAnswer(s, outcome)
    \/ Tick

Spec == Init /\ [][Next]_vars

\* The same server receiving the events of IdlessPayloads.
NextIdless ==
    \/ \E body \in IdlessPayloads : Webhook(body)
    \/ \E i \in 1..Len(loops), d \in Decisions : NluDecide(i, d)
    \/ \E s \in pending, outcome \in Outcomes : TransportAnswer(s, outcome)
    \/ Tick

SpecIdless == Init /\ [][NextIdless]_vars

\* ----------------------------------------------------------------- claims
Running(i) == loops[i].status = "running"

Completes(i) == loops[i].status = "running" /\ loops'[i].status = "done"

Fails(i) == loops[i].status = "running" /\ loops'[i].status = "failed"

\* What the handler does with body in the current state.
Handled(body) == PostFb(body, sessions, clock, Fresh(sessions, loops))

\* C1: at most one dispatch loop per session is in flight at any time: no
\* two running loops started for events of the same user have the same
\* sessionId.
C1_OneLoopPerSession ==
    \A i, j \in 1..Len(loops) :
        (/\ i # j
         /\ Running(i) /\ Running(j)
         /\ Truthy(loops[i].sender)
         /\ loops[i].sender = loops[j].sender)
        => loops[i].sessionId # loops[j].sessionId

\* C2: no two session records carry the same fbid.
C2_OneSessionPerUser ==
    \A i, j \in 1..Len(sessions) : sessions[i].fbid = sessions[j].fbid => i = j

\* Two users have a session each, and a second event of one of them was
\* resolved to a session.
C2_Witness ==
    /\ Len(sessions) = 2
    /\ \E i, j \in 1..Len(loops) : i # j /\ Running(i) /\ Running(j)
                                   /\ loops[i].sender = loops[j].sender

\* C3: while no dispatch loop has completed, an event of a user who already
\* has a loop creates no session and gets the sessionId that loop got.
C3_OneCreationWhileRacing ==
    [][\A body \in Payloads :
        (/\ Webhook(body)
         /\ \A j \in 1..Len(loops) : Running(j)
         /\ Handled(body).kind \in {"attachment", "dispatch", "nothing"}
         /\ Truthy(Handled(body).sender))
        => \A j \in 1..Len(loops) :
              loops[j].sender = Handled(body).sender
              => /\ ~Handled(body).created
                 /\ Handled(body).sessionId = loops[j].sessionId]_vars

\* C4: a sessionId synthesized for a user without session is the key of no
\* session already in the store.
C4_CreationNeverOverwrites ==
    [][\A body \in Payloads :
        (Webhook(body) /\ Handled(body).created)
        => ~Has(sessions, Handled(body).sessionId)]_vars

Sequential(L) ==
    L.status = "running"
    => /\ L.conts <= 1
       /\ L.nlu + (IF L.action # "none" THEN 1 ELSE 0) = 1
       /\ L.action # "none" <=> (L.turn > 0 /\ L.conts = 0)

\* C6: within one loop a handler is started only by a decision, for the
\* action decided, after the continuation of the turn before has been
\* invoked, and with the context that continuation produced; turns never
\* overlap.
C6_TurnsInOrder ==
    [][\A i \in 1..Len(loops) :
        /\ loops'[i].turn = loops[i].turn + 1
           => /\ loops[i].turn > 0 => loops[i].conts = 1
              /\ loops[i].action = "none"
              /\ loops'[i].given = loops[i].result
              /\ \E d \in Registered \cup {"msg", "merge"} :
                    /\ NluDecide(i, d)
                    /\ loops'[i].action \in {d, "none"}
        /\ Sequential(loops'[i])]_vars

\* A loop is in its second turn, after a say whose continuation was invoked.
C6_Witness ==
    \E i \in 1..Len(loops) :
        loops[i].turn = 2 /\ loops[i].action = "msg" /\ loops[i].conts = 0

\* C7: the step in which a loop ends in FAILED leaves the session map as it was.
C7_FailureWritesNothing ==
    [][\A i \in 1..Len(loops) : Fails(i) => sessions' = sessions]_vars

\* Loops have failed with either kind, and the session of one of them is in
\* the store.
C7_Witness ==
    /\ \E i \in 1..Len(loops) : loops[i].status = "failed" /\ loops[i].kind = "UnknownAction"
                                /\ Has(sessions, loops[i].sessionId)
    /\ \E i \in 1..Len(loops) : loops[i].status = "failed" /\ loops[i].kind = "NluEngineError"

\* C8: the context kept under a sessionId changes only in the step in which
\* a loop of that session completes, and to that loop's final context.
C8_ContextChangesOnlyOnCompletion ==
    [][\A k \in Keys(sessions) :
        Get(sessions', k).context # Get(sessions, k).context
        => \E i \in 1..Len(loops) :
              /\ Completes(i)
              /\ loops[i].sessionId = k
              /\ Get(sessions', k).context = loops[i].ctx]_vars

\* C9: every POST is answered with status 200.
C9_AlwaysAcknowledged == reqs.status \in {"none", "200"}

\* The payloads the router is to drop: wrong object type, no usable entry or
\* messaging list, an entry or recipient id other than the page's, no
\* recipient id, or neither message nor postback.
IdDiffers(x) == x = Undefined \/ ToNumber(x) # ToNumber(FB_PAGE_ID)

Irrelevant(body) ==
    \/ body.object # "page"
    \/ body.entry # "ok"
    \/ body.messaging # "ok"
    \/ IdDiffers(body.entryId)
    \/ body.recipient = "absent"
    \/ IdDiffers(body.recipient)
    \/ (body.message = "absent" /\ body.postback = "absent")

\* C10: a malformed or irrelevant payload creates no session, starts no
\* loop, sends nothing and raises no error.
C10_IrrelevantIgnored ==
    [][\A body \in Payloads :
        (Irrelevant(body) /\ Webhook(body))
        => /\ sessions' = sessions
           /\ loops' = loops
           /\ Handled(body).sends = <<>>
           /\ Handled(body).status = "200"]_vars

\* The requests in flight whose answer resumes turn t of loop i.
Awaited(pend, i, t) == {s \in pend : s.loop = i /\ s.turn = t}

\* C11: a handler invokes its continuation exactly once. A handler that
\* issued no request with a callback has invoked it when it returns; a
\* handler that waits for the transport has exactly one request in flight,
\* and whatever the transport answers to it, the continuation is invoked
\* once and the loop goes on awaiting a decision; it never fails by that.
C11_ContinuationExactlyOnce ==
    [][\A i \in 1..Len(loops) :
        /\ loops'[i].conts <= 1
        /\ loops'[i].turn = loops[i].turn + 1
           => loops'[i].conts = (IF \E j \in 1..Len(outbox') : outbox'[j].cb THEN 0 ELSE 1)
        /\ (loops'[i].status = "running" /\ loops'[i].turn > 0 /\ loops'[i].conts = 0)
           => Cardinality(Awaited(pending', i, loops'[i].turn)) = 1
        /\ \A s \in Awaited(pending, i, loops[i].turn), outcome \in Outcomes :
              TransportAnswer(s, outcome)
              => /\ loops'[i].status = "running"
                 /\ loops'[i].conts = 1
                 /\ loops'[i].nlu = 1
                 /\ loops'[i].turn = loops[i].turn]_vars

\* A say for a user waits for the transport in one loop, and in another loop
\* a handler called for the sender without id has given the wheel back.
C11_Witness ==
    \E i, j \in 1..Len(loops) :
        /\ loops[i].action = "msg" /\ Awaited(pending, i, loops[i].turn) # {}
        /\ loops[j].sender = Undefined /\ loops[j].turn = 1 /\ loops[j].conts = 1

\* The transport outcomes that are failures of the send: the call failed, or
\* the platform put an error field into the body of a 200 response.
Failed(outcome) == outcome # "ok"

\* C12: every request a handler hands to the gateway carries a callback of
\* that handler, so that a failure of the send reaches the handler.
C12_HandlerSendsReport ==
    [][\A i \in 1..Len(loops) :
        loops'[i].turn = loops[i].turn + 1
        => \A j \in 1..Len(outbox') : outbox'[j].cb]_vars

\* C13: whatever the transport answers to a request, the error the gateway
\* passes to the caller is truthy exactly if the send failed.
C13_ErrorIffFailed ==
    [][\A s \in pending, outcome \in Outcomes :
        TransportAnswer(s, outcome)
        => (Truthy(GatewayError(outcome)) <=> Failed(outcome))]_vars

\* C14: when the decision names an action without handler, the loop ends
\* FAILED with kind UnknownAction and the step hands no request to the
\* gateway.
C14_UnknownActionSendsNothing ==
    [][\A i \in 1..Len(loops) :
        NluDecide(i, "nonexistent_action")
        => /\ loops'[i].status = "failed"
           /\ loops'[i].kind = "UnknownAction"
           /\ outbox' = <<>>]_vars

\* C14, amended: when the decision names an action without handler, the loop
\* ends FAILED with kind UnknownAction, no handler runs and no request waits
\* for an answer, and the one request handed to the gateway is the failure
\* notice of the completion callback, addressed to the sender of the event.
C14_UnknownActionOnlyNotifies ==
    [][\A i \in 1..Len(loops) :
        NluDecide(i, "nonexistent_action")
        => /\ loops'[i].status = "failed"
           /\ loops'[i].kind = "UnknownAction"
           /\ pending' = pending
           /\ Len(outbox') = 1
           /\ outbox'[1].payload = "failureNotice"
           /\ outbox'[1].to = loops[i].sender]_vars

\* A loop of u2 has just failed on an unknown action while another loop is
\* running, and the failure notice is on its way to u2.
C14_Witness ==
    /\ \E i \in 1..Len(loops) : loops[i].status = "failed" /\ loops[i].kind = "UnknownAction"
    /\ \E i \in 1..Len(loops) : loops[i].status = "running"
    /\ outbox = <<fbMessage("u2", "failureNotice", FALSE)>>

\* C15: a loop is started with the context of a record of its own user, and
\* the step in which a loop of one user completes leaves the context of the
\* record of every other user who has a loop running as it was.
C15_LoopsKeepToTheirSession ==
    [][/\ Len(loops') = Len(loops) + 1
          => \E k \in 1..Len(sessions') :
                /\ sessions'[k].fbid = loops'[Len(loops')].sender
                /\ sessions'[k].context = loops'[Len(loops')].ctx
       /\ \A i \in 1..Len(loops) :
             (Completes(i) /\ Truthy(loops[i].sender))
             => \A k \in 1..Len(sessions) :
                   (/\ sessions[k].fbid # loops[i].sender
                    /\ \E j \in 1..Len(loops) :
                          Running(j) /\ loops[j].sender = sessions[k].fbid)
                   => sessions'[k].context = sessions[k].context]_vars

\* C16: the step in which list_schedule runs hands exactly one request to
\* the gateway, the carousel, addressed to the user whose event started the
\* loop, and continues the loop with the context the handler was given; the
\* stop that follows sends nothing and stores that context under the loop's
\* sessionId.
C16_ListScheduleThenStop ==
    [][\A i \in 1..Len(loops) :
        /\ NluDecide(i, "list_schedule")
           => /\ Len(outbox') = 1
              /\ outbox'[1].payload = "carousel"
              /\ outbox'[1].to = loops[i].sender
              /\ loops'[i].conts = 1
              /\ loops'[i].given = loops[i].ctx
              /\ loops'[i].ctx = loops[i].ctx
        /\ NluDecide(i, "stop")
           => /\ outbox' = <<>>
              /\ loops'[i].status = "done"
              /\ Get(sessions', loops[i].sessionId).context = loops[i].ctx]_vars

\* C17: the step in which a loop ends in FAILED hands exactly one request to
\* the gateway, the failure notice, addressed to the sender of the event
\* that started the loop; the step in which a loop ends in DONE hands none.
C17_FailureNoticeToSender ==
    [][\A i \in 1..Len(loops) :
        /\ Fails(i) => outbox' = <<fbMessage(loops[i].sender, "failureNotice", FALSE)>>
        /\ Completes(i) => outbox' = <<>>]_vars

\* A loop of u1 has just failed on an engine error and the notice goes to
\* u1, although the record under the loop's sessionId has become u2's.
C17_Witness ==
    /\ outbox = <<fbMessage("u1", "failureNotice", FALSE)>>
    /\ \E i \in 1..Len(loops) :
          /\ loops[i].status = "failed"
          /\ loops[i].kind = "NluEngineError"
          /\ Get(sessions, loops[i].sessionId).fbid = "u2"

\* C18: while a loop runs, the record under its sessionId belongs to the user
\* whose event started it, and every request a handler of the loop hands to
\* the gateway is addressed to that user.
C18_HandlerSendsToLoopUser ==
    [][\A i \in 1..Len(loops) :
        (Running(i) /\ Truthy(loops[i].sender))
        => /\ Get(sessions', loops[i].sessionId).fbid = loops[i].sender
           /\ loops'[i].turn = loops[i].turn + 1
              => \A j \in 1..Len(outbox') : outbox'[j].to = loops[i].sender]_vars

\* The events the handler accepts: a first messaging entry with a message or
\* a postback, addressed to the page, from a sender object.
Accepted(body) ==
    /\ body.object = "page" /\ body.entry = "ok" /\ body.messaging = "ok"
    /\ ~IdDiffers(body.entryId)
    /\ (body.message # "absent" \/ body.postback # "absent")
    /\ body.recipient = PageNum
    /\ body.sender # "absent"

HasAttachments(body) == body.message \in {"atts", "textAtts"}

HasUtterance(body) == body.message \in {"text", "textAtts"} \/ body.postback = "payload"

\* C19: an accepted event whose message has attachments starts no loop and
\* no NLU call, with or without text, and hands exactly one request to the
\* gateway, the auto-reply to the sender; an accepted event with neither
\* attachments nor text nor postback payload starts no loop and sends nothing.
C19_AttachmentsNeverDispatch ==
    [][\A body \in IdlessPayloads :
        (/\ Accepted(body)
         /\ HasAttachments(body) \/ ~HasUtterance(body)
         /\ Webhook(body))
        => /\ HasAttachments(body)
              => /\ loops' = loops
                 /\ pending' = pending
                 /\ outbox' = <<fbMessage(body.sender, "attachmentNotice", FALSE)>>
           /\ (~HasAttachments(body) /\ ~HasUtterance(body))
              => /\ loops' = loops
                 /\ pending' = pending
                 /\ outbox' = <<>>]_vars

\* A loop of u1 is running and is still the only one, and the auto-reply to
\* an attachment event of u1 has just been handed to the gateway.
C19_Witness ==
    /\ outbox = <<fbMessage("u1", "attachmentNotice", FALSE)>>
    /\ Len(loops) = 1 /\ loops[1].status = "running" /\ loops[1].sender = "u1"
    /\ loops[1].turn = 1

====
